---------------------------- MODULE Spec2Model ----------------------------
(***************************************************************************)
(* Model of src/main.py: a Telegram bot that asks nationalize.io for the   *)
(* likely nationalities of a name (handle_name), keeps the top five in the *)
(* process-wide dict request_cache and renders them as a bar chart when    *)
(* the inline button of the reply is pressed (send_graph).                 *)
(*                                                                         *)
(* Strings are sequences of one-character strings, so that strip, split,   *)
(* slicing and concatenation are computed as Python computes them.         *)
(* Probabilities are integers in per mille (0.9 is 900), so that           *)
(* probability * 100 printed with one decimal is the same integer.         *)
(***************************************************************************)
EXTENDS Integers, Sequences, FiniteSets, TLC

\* ------------------------------------------------------------------ bounds
MaxText == 2          \* longest message text, in characters
MaxResp == 1          \* longest "country" list the service returns to a handler
MaxProb == 1          \* probabilities are 1..MaxProb
MaxEvents == 4        \* inbound events dispatched in one behaviour
NumThreads == 2       \* handlers the hosting runtime runs concurrently
MaxSortLen == 6       \* longest "country" list of the ranking specification
MaxSortProb == 2      \* the ranking specification's probabilities are 1..MaxSortProb
MaxCode == 3          \* longest country code given to get_country_name on its own
MaxChat == 11         \* the cache key on its own: chat ids are -MaxChat..MaxChat
MaxKeyName == 2       \* the cache key on its own: longest text around 'graph_' in a name

\* of the events of one behaviour, at most half are free-text messages, at
\* most half are button presses and at most a quarter are commands
MaxQueries == MaxEvents \div 2
MaxPresses == MaxEvents \div 2
MaxCommands == MaxEvents \div 4

Threads == 1..NumThreads
ChatIds == {-1, 1}
TextChars == {"a", " ", "-"}
CountryIds == {<<"R", "U">>, <<"X", "X">>}
CodeChars == {"R", "U", "S", "X"}
Probs == 1..MaxProb

\* ------------------------------------------------------------ Python str
SeqsUpTo(S, n) == UNION {[1..k -> S] : k \in 0..n}

IsSpace(c) == c = " "

RECURSIVE lstrip(_)
lstrip(s) == IF s # <<>> /\ IsSpace(Head(s)) THEN lstrip(Tail(s)) ELSE s

RECURSIVE rstrip(_)
rstrip(s) ==
    IF s # <<>> /\ IsSpace(s[Len(s)]) THEN rstrip(SubSeq(s, 1, Len(s) - 1)) ELSE s

\* message.text.strip()
strip(s) == rstrip(lstrip(s))

Digit(d) ==
    CASE d = 0 -> "0" [] d = 1 -> "1" [] d = 2 -> "2" [] d = 3 -> "3" [] d = 4 -> "4"
      [] d = 5 -> "5" [] d = 6 -> "6" [] d = 7 -> "7" [] d = 8 -> "8" [] d = 9 -> "9"

RECURSIVE NatStr(_)
NatStr(n) == IF n < 10 THEN <<Digit(n)>> ELSE NatStr(n \div 10) \o <<Digit(n % 10)>>

\* the decimal text of an integer, as an f-string renders message.chat.id
str(i) == IF i < 0 THEN <<"-">> \o NatStr(0 - i) ELSE NatStr(i)

\* s.split(sep) for a one-character separator
RECURSIVE split(_, _)
split(s, sep) ==
    IF \E i \in 1..Len(s) : s[i] = sep
    THEN LET i == CHOOSE j \in 1..Len(s) :
                      s[j] = sep /\ \A m \in 1..(j - 1) : s[m] # sep
         IN <<SubSeq(s, 1, i - 1)>> \o split(SubSeq(s, i + 1, Len(s)), sep)
    ELSE <<s>>

startswith(s, p) == Len(s) >= Len(p) /\ SubSeq(s, 1, Len(p)) = p

\* (a slip: the prefix without its underscore)
GraphPrefixShort == <<"g", "r", "a", "p", "h">>

\* the literal 'graph_' of lines 158 and 177
GraphPrefix == <<"g", "r", "a", "p", "h", "_">>

\* (a slip: the separator is left out)
CacheKeyNoSeparator(chat_id, name) == str(chat_id) \o name

\* cache_key = f"{message.chat.id}-{name}"
CacheKey(chat_id, name) == str(chat_id) \o <<"-">> \o name

\* callback_data = f"graph_{cache_key}"
CallbackData(cache_key) == GraphPrefix \o cache_key

\* (a slip: call.data[5:])
PayloadKeyOffByOne(data) == SubSeq(data, 6, Len(data))

\* cache_key = call.data[6:]
PayloadKey(data) == SubSeq(data, 7, Len(data))


\* ------------------------------------------------------- get_country_name
\* the alpha_2 codes pycountry knows, with their names
Registry ==
    [c \in {<<"R", "U">>, <<"U", "S">>} |->
        IF c = <<"R", "U">> THEN <<"Russian Federation">> ELSE <<"United States">>]

\* pycountry.countries.get(alpha_2=country_code).name: the name, or the
\* AttributeError of None.name, get returning None for an unknown code
LookupName(country_code) ==
    IF country_code \in DOMAIN Registry
    THEN [exc |-> "none", name |-> Registry[country_code]]
    ELSE [exc |-> "AttributeError", name |-> <<>>]

\* (a slip: except LookupError)
CaughtLookupOnly == {"LookupError"}

\* except (AttributeError, LookupError)
Caught == {"AttributeError", "LookupError"}

\* the whole function: what it returns, or the exception it lets through
Resolve(country_code) ==
    LET r == LookupName(country_code)
    IN IF r.exc = "none" THEN r
       ELSE IF r.exc \in Caught
       THEN [exc |-> "none", name |-> <<"Unknown country (">> \o country_code \o <<")">>]
       ELSE r

get_country_name(country_code) == Resolve(country_code).name

\* ------------------------------------------------ ranking and formatting
Guesses == [country_id : CountryIds, probability : Probs]

TopN == 5

Min(a, b) == IF a < b THEN a ELSE b

\* (a slip: an unstable insertion, which puts x before its equals)
RECURSIVE InsertDescUnstable(_, _)
InsertDescUnstable(done, x) ==
    IF done = <<>> THEN <<x>>
    ELSE IF Head(done).probability > x.probability
         THEN <<Head(done)>> \o InsertDescUnstable(Tail(done), x)
         ELSE <<x>> \o done

\* one insertion of Python's stable sort with reverse=True: x goes after every
\* element whose probability is greater than or equal to its own
RECURSIVE InsertDesc(_, _)
InsertDesc(done, x) ==
    IF done = <<>> THEN <<x>>
    ELSE IF Head(done).probability >= x.probability
         THEN <<Head(done)>> \o InsertDesc(Tail(done), x)
         ELSE <<x>> \o done

\* sorted(countries, key=lambda x: x['probability'], reverse=True)
RECURSIVE sorted_reverse(_)
sorted_reverse(countries) ==
    IF countries = <<>> THEN <<>>
    ELSE InsertDesc(sorted_reverse(SubSeq(countries, 1, Len(countries) - 1)),
                    countries[Len(countries)])

\* probabilities do not increase along the list
SortedDesc(items) ==
    \A i \in 1..Len(items) - 1 : items[i].probability >= items[i + 1].probability

\* (a slip: the slice [:5] is left out)
TopCountriesUncut(countries) == sorted_reverse(countries)

\* sorted(...)[:5]
TopCountries(countries) ==
    SubSeq(sorted_reverse(countries), 1, Min(TopN, Len(countries)))

\* f"{probability * 100:.1f}%" for a probability given in per mille
Percent(p) == NatStr(p \div 10) \o <<".", Digit(p % 10), "%">>

\* f"{i}. {get_country_name(c['country_id'])} - {c['probability'] * 100:.1f}%"
ResultLine(i, c) ==
    NatStr(i) \o <<".", " ">> \o get_country_name(c.country_id)
        \o <<" ", "-", " ">> \o Percent(c.probability)

\* the list comprehension over enumerate(top_countries, 1)
ResultLines(top_countries) ==
    [i \in 1..Len(top_countries) |-> ResultLine(i, top_countries[i])]

\* ------------------------------------------------------ create_bar_chart
\* the index of the first element of names equal to names[i]
FirstAt(names, i) == CHOOSE j \in 1..i : names[j] = names[i] /\ \A k \in 1..(j - 1) : names[k] # names[i]

\* plt.bar with strings as x: the axis is categorical, every distinct string
\* gets the next position 0, 1, 2, ... at its first occurrence, and an equal
\* string gets the position of the first
CategoryX(names, i) == Cardinality({names[k] : k \in 1..(FirstAt(names, i) - 1)})

\* the tick labels of the categorical axis, by position
RECURSIVE Ticks(_)
Ticks(names) ==
    IF names = <<>> THEN <<>>
    ELSE LET front == SubSeq(names, 1, Len(names) - 1)
             last == names[Len(names)]
         IN IF \E k \in 1..Len(front) : front[k] = last
            THEN Ticks(front)
            ELSE Append(Ticks(front), last)

\* lines 58-81: plt.bar draws one rectangle per element of countries_data, at
\* the position of its name and with its probability as height (in tenths of
\* a percent), and plt.text writes the height above it
create_bar_chart(countries_data) ==
    LET country_names == [i \in 1..Len(countries_data) |->
                             get_country_name(countries_data[i].country_id)]
    IN [bars |-> [i \in 1..Len(countries_data) |->
                    [x |-> CategoryX(country_names, i),
                     height |-> countries_data[i].probability,
                     text |-> Percent(countries_data[i].probability)]],
        ticks |-> Ticks(country_names)]


\* ------------------------------------------------------------------ state
VARIABLES
    request_cache,  \* the dict request_cache: cache key -> cached list
    handler,        \* per worker thread: the handler it runs and its locals
    buttons,        \* inline buttons delivered to users: chat and callback_data
    events,         \* inbound events dispatched so far, by kind
    pending,        \* history: button payload -> list its query stored, not deleted since
    rendered,       \* history: list id -> number of handlers that charted it
    countries,      \* ranking: a "country" list of the service
    shown,          \* ranking: what handle_name derives from countries
    resolver,       \* get_country_name on its own: a code, and the outcome
    keying,         \* the cache key on its own: chat id, name, key and payload
    charting        \* create_bar_chart on its own: a ranked result, and the chart

\* the variables of the functions taken on their own
aside == <<resolver, keying, charting>>

vars == <<request_cache, handler, buttons, events, pending, rendered, countries, shown,
          aside>>

\* the variables of the bot proper and of its ranking
bot_vars == <<request_cache, handler, buttons, events, pending, rendered, countries, shown>>

\* A cached list is a Python object: id tells two lists with equal items apart.
\* None has id 0; the list a query builds has the number of its event as id.
\* by is history: the trimmed name of the query that built the list.
None == [id |-> 0, items |-> <<>>, by |-> <<>>]

\* no response parsed (yet)
NoData == [kind |-> "none", has_country |-> FALSE, country |-> <<>>]

\* (a slip: no test of the lookup's result)
FalsyNever(v) == FALSE

\* `not top_countries`: None and the empty list are both falsy
Falsy(v) == v.id = 0 \/ v.items = <<>>

\* request_cache.get(cache_key)
CacheGet(cache, key) == IF key \in DOMAIN cache THEN cache[key] ELSE None

\* request_cache[cache_key] = top_countries
CachePut(cache, key, v) ==
    [k \in DOMAIN cache \cup {key} |-> IF k = key THEN v ELSE cache[k]]

\* (a slip: the whole dict is cleared)
CacheDelAll(cache, key) == <<>>

\* (a slip: the entry is kept)
CacheDelKeeps(cache, key) == cache

\* del request_cache[cache_key], for a key that is present
CacheDel(cache, key) == [k \in DOMAIN cache \ {key} |-> cache[k]]

\* the literal texts of the replies, by name
Validation == "name must have at least 2 characters"
ApiError == "API request error: <cause>"
UnexpectedError == "unexpected error: <cause>"
NoPrediction == "no prediction available"
Summary == "top-5 summary"
Welcome == "welcome"
Stale == "data stale or missing"
ChartError == "chart error: <cause>"
Photo == "chart photo"

\* what an outbound Telegram call inside handle_name's try block does: it
\* returns, or it raises an exception of one of the two classes the except
\* clauses tell apart
SendOutcomes == {"ok", "RequestException", "ApiTelegramException"}

\* what any other outbound Telegram call does: it returns, or it raises (the
\* class of the exception makes no difference to the code around the call)
RaiseOutcomes == {"ok", "ApiTelegramException"}

\* one outbound call of a handler, in the order made
\* (extra is the callback_data of the attached button, or the caption's name)
Call(api, ok, what, data, extra) ==
    [api |-> api, ok |-> ok, what |-> what, data |-> data, extra |-> extra]

Idle ==
    [pc |-> "idle", ev |-> 0, kind |-> "none", chat_id |-> 0, text |-> <<>>,
     name |-> <<>>, data |-> NoData, cache_key |-> <<>>, top_countries |-> None,
     result |-> <<>>,
     calls |-> <<>>, exc |-> "none", expect |-> None, wrote |-> FALSE]

Free(h) == handler[h].pc \in {"idle", "done"}

\* the runtime hands an inbound event to the first worker thread that is free
CanStart(h) == Free(h) /\ \A g \in Threads : g < h => ~Free(g)

\* inbound texts: free text, and the two commands
Texts == SeqsUpTo(TextChars, MaxText) \ {<<>>}
CommandTexts == {<<"/", "s", "t", "a", "r", "t">>, <<"/", "h", "e", "l", "p">>}

\* every text message the bot may receive
Inbound == Texts \cup CommandTexts

\* (a slip: the command handler is not registered, or registered last)
IsCommandNever(text) == FALSE

\* @bot.message_handler(commands=['start', 'help']) is registered first
IsCommand(text) == text \in CommandTexts

\* what the service answers: a failure of the request, a body that is not the
\* expected JSON, or a JSON object with or without a "country" list
Responses ==
    {[kind |-> k, has_country |-> FALSE, country |-> <<>>] :
        k \in {"RequestException", "Exception", "json"}}
    \cup {[kind |-> "json", has_country |-> TRUE, country |-> l] :
            l \in SeqsUpTo(Guesses, MaxResp)}

\* data.get('country', [])
CountryField(data) == IF data.has_country THEN data.country ELSE <<>>

\* (a slip: no test of the list)
NoCountriesNever(cs) == FALSE

\* `not countries`
NoCountries(cs) == cs = <<>>

\* lines 138-148: the top five and the numbered lines of the reply
Ranked(cs) ==
    [top_countries |-> TopCountries(cs), result |-> ResultLines(TopCountries(cs))]

\* the number of events dispatched so far; the next event is Dispatched + 1
Dispatched == events.command + events.text + events.press

NotShown == [ranked |-> FALSE, top_countries |-> <<>>, result |-> <<>>]

\* the functions taken on their own, not called
NotResolved == [code |-> <<>>, called |-> FALSE, exc |-> "none", name |-> <<>>]
NotKeyed ==
    [chat_id |-> 0, name |-> <<>>, called |-> FALSE, cache_key |-> <<>>,
     callback_data |-> <<>>, extracted |-> <<>>]
NotCharted ==
    [countries_data |-> <<>>, called |-> FALSE, chart |-> [bars |-> <<>>, ticks |-> <<>>]]

\* the part of the initial state that is the bot's: an empty cache, no handler
InitBot ==
    /\ request_cache = <<>>
    /\ handler = [h \in Threads |-> Idle]
    /\ buttons = {}
    /\ events = [command |-> 0, text |-> 0, press |-> 0]
    /\ pending = <<>>
    /\ rendered = [i \in 1..MaxEvents |-> 0]

TypeOK ==
    /\ Dispatched \in 0..MaxEvents
    /\ \A h \in Threads : handler[h].pc \in
          {"idle", "done", "hn_request", "hn_put", "hn_send", "sg_del", "sg_render"}

Init ==
    /\ InitBot
    /\ countries = <<>>
    /\ shown = NotShown
    /\ resolver = NotResolved
    /\ keying = NotKeyed
    /\ charting = NotCharted

\* the handler of thread h ends: normally, or with exception exc propagating
\* to the dispatcher
Done(rec, call, outcome) ==
    [rec EXCEPT !.pc = "done", !.calls = Append(rec.calls, call),
                !.exc = IF outcome = "ok" THEN "none" ELSE outcome]

\* ----------------------------------------------------------- send_welcome
send_welcome(h) ==
    /\ CanStart(h)
    /\ Dispatched < MaxEvents
    /\ events.command < MaxCommands
    /\ \E chat \in ChatIds, text \in Inbound, o \in RaiseOutcomes :
         /\ IsCommand(text)
         /\ handler' = [handler EXCEPT ![h] =
               Done([Idle EXCEPT !.kind = "command",
                                 !.chat_id = chat, !.text = text],
                    Call("reply_to", o, Welcome, <<>>, <<>>), o)]
    /\ events' = [events EXCEPT !.command = @ + 1]
    /\ UNCHANGED <<request_cache, buttons, pending, rendered, countries, shown, aside>>

\* ------------------------------------------------------------ handle_name
\* (a slip: len(name) < 1)
TooShortOffByOne(name) == Len(name) < 1

\* len(name) < 2
TooShort(name) == Len(name) < 2

\* lines 113-118: strip, validate
HN_Begin(h) ==
    /\ CanStart(h)
    /\ Dispatched < MaxEvents
    /\ events.text < MaxQueries
    /\ \E chat \in ChatIds, text \in Inbound :
         /\ ~IsCommand(text)
         /\ LET rec == [Idle EXCEPT !.kind = "text",
                                    !.chat_id = chat, !.text = text,
                                    !.name = strip(text)]
            IN IF TooShort(rec.name)
               THEN \E o \in RaiseOutcomes :
                      handler' = [handler EXCEPT ![h] =
                          Done(rec, Call("reply_to", o, Validation, <<>>, <<>>), o)]
               ELSE handler' = [handler EXCEPT ![h] =
                          [rec EXCEPT !.pc = "hn_request", !.ev = Dispatched + 1]]
    /\ events' = [events EXCEPT !.text = @ + 1]
    /\ UNCHANGED <<request_cache, buttons, pending, rendered, countries, shown, aside>>

\* lines 169-174: the except clauses of handle_name reply with the cause
Except(rec, raised, o) ==
    Done(rec,
         Call("reply_to", o,
              IF raised = "RequestException" THEN ApiError ELSE UnexpectedError,
              <<>>, <<>>),
         o)

\* lines 122-152 up to the cache write: request, parse, rank, format, with
\* the service answering one of responses
HN_RequestFrom(h, responses) ==
    /\ \E data \in responses :
         LET rec == [handler[h] EXCEPT
                        !.calls =
                            Append(@, Call("requests.get",
                                           IF data.kind = "json" THEN "ok" ELSE data.kind,
                                           "predict", handler[h].name, <<>>)),
                        !.data = IF data.kind = "json" THEN data ELSE NoData]
         IN IF data.kind # "json"
            THEN \E o \in RaiseOutcomes :
                   handler' = [handler EXCEPT ![h] = Except(rec, data.kind, o)]
            ELSE IF NoCountries(CountryField(data))
            THEN \E o \in SendOutcomes :
                   LET sent == [rec EXCEPT !.calls =
                                   Append(@, Call("reply_to", o, NoPrediction, <<>>, <<>>))]
                   IN IF o = "ok"
                      THEN handler' = [handler EXCEPT ![h] = [sent EXCEPT !.pc = "done"]]
                      ELSE \E o2 \in RaiseOutcomes :
                             handler' = [handler EXCEPT ![h] = Except(sent, o, o2)]
            ELSE handler' = [handler EXCEPT ![h] =
                     [rec EXCEPT !.pc = "hn_put",
                                 !.top_countries =
                                     [id |-> rec.ev,
                                      items |-> Ranked(CountryField(data)).top_countries,
                                      by |-> rec.name],
                                 !.result = Ranked(CountryField(data)).result,
                                 !.cache_key = CacheKey(rec.chat_id, rec.name)]]
    /\ UNCHANGED <<request_cache, buttons, events, pending, rendered, countries, shown, aside>>

HN_Request(h) ==
    /\ handler[h].pc = "hn_request"
    /\ HN_RequestFrom(h, Responses)

\* line 152: request_cache[cache_key] = top_countries
HN_Put(h) ==
    /\ handler[h].pc = "hn_put"
    /\ request_cache' =
          CachePut(request_cache, handler[h].cache_key, handler[h].top_countries)
    /\ pending' = [d \in DOMAIN pending \cup {CallbackData(handler[h].cache_key)} |->
                      IF d = CallbackData(handler[h].cache_key)
                      THEN handler[h].top_countries ELSE pending[d]]
    /\ handler' = [handler EXCEPT ![h].pc = "hn_send", ![h].wrote = TRUE]
    /\ UNCHANGED <<buttons, events, rendered, countries, shown, aside>>

\* lines 155-167: the button and the summary message
HN_Send(h) ==
    /\ handler[h].pc = "hn_send"
    /\ \E o \in SendOutcomes :
         LET data == CallbackData(handler[h].cache_key)
             sent == [handler[h] EXCEPT !.calls =
                         Append(@, Call("send_message", o, Summary,
                                        handler[h].result, data))]
         IN IF o = "ok"
            THEN /\ handler' = [handler EXCEPT ![h] = [sent EXCEPT !.pc = "done"]]
                 /\ buttons' = buttons \cup
                        {[chat_id |-> handler[h].chat_id, data |-> data]}
            ELSE /\ \E o2 \in RaiseOutcomes :
                      handler' = [handler EXCEPT ![h] = Except(sent, o, o2)]
                 /\ UNCHANGED buttons
    /\ UNCHANGED <<request_cache, events, pending, rendered, countries, shown, aside>>

\* ------------------------------------------------------------- send_graph
\* what create_bar_chart does: it returns the chart, or matplotlib raises
RenderOutcomes == {"ok", "Exception"}

\* @bot.callback_query_handler(func=lambda call: call.data.startswith('graph_'))
IsGraphCall(data) == startswith(data, GraphPrefix)

\* lines 183-194: the key, the lookup, and the notice for a falsy result
SG_Get(h) ==
    /\ CanStart(h)
    /\ Dispatched < MaxEvents
    /\ events.press < MaxPresses
    /\ \E btn \in buttons :
         /\ IsGraphCall(btn.data)
         /\ LET key == PayloadKey(btn.data)
                rec == [Idle EXCEPT !.kind = "press",
                                    !.chat_id = btn.chat_id, !.text = btn.data,
                                    !.cache_key = key,
                                    !.top_countries = CacheGet(request_cache, key),
                                    !.expect = IF btn.data \in DOMAIN pending
                                               THEN pending[btn.data] ELSE None]
            IN IF Falsy(rec.top_countries)
                  THEN \E o \in RaiseOutcomes :
                         handler' = [handler EXCEPT ![h] =
                             Done(rec, Call("answer_callback_query", o, Stale,
                                            <<>>, <<>>), o)]
                  ELSE handler' = [handler EXCEPT ![h] = [rec EXCEPT !.pc = "sg_del"]]
    /\ events' = [events EXCEPT !.press = @ + 1]
    /\ UNCHANGED <<request_cache, buttons, pending, rendered, countries, shown, aside>>

\* line 197: del request_cache[cache_key] raises KeyError for a missing key
SG_Del(h) ==
    /\ handler[h].pc = "sg_del"
    /\ IF handler[h].cache_key \in DOMAIN request_cache
       THEN /\ request_cache' = CacheDel(request_cache, handler[h].cache_key)
            /\ handler' = [handler EXCEPT
                              ![h].pc = "sg_render", ![h].wrote = TRUE,
                              ![h].expect = IF handler[h].text \in DOMAIN pending
                                            THEN pending[handler[h].text] ELSE None]
            /\ pending' = [d \in DOMAIN pending \ {handler[h].text} |-> pending[d]]
       ELSE /\ handler' = [handler EXCEPT ![h].pc = "done", ![h].exc = "KeyError"]
            /\ UNCHANGED <<request_cache, pending>>
    /\ UNCHANGED <<buttons, events, rendered, countries, shown, aside>>

\* lines 207-212: the except clause of send_graph answers with the cause
SGExcept(rec, o) ==
    Done(rec, Call("answer_callback_query", o, ChartError, <<>>, <<>>), o)

\* cache_key.split('-')[1]
CaptionName(cache_key) == split(cache_key, "-")[2]

\* lines 200-206: the chart, the caption, the photo
SG_Render(h) ==
    /\ handler[h].pc = "sg_render"
    /\ \E r \in RenderOutcomes :
         LET top == handler[h].top_countries
             drawn == [handler[h] EXCEPT !.calls =
                          Append(@, Call("create_bar_chart", r, "render", top, <<>>))]
         IN /\ rendered' = IF r = "ok"
                           THEN [rendered EXCEPT ![top.id] = @ + 1]
                           ELSE rendered
            /\ IF r # "ok"
               THEN \E o \in RaiseOutcomes :
                      handler' = [handler EXCEPT ![h] = SGExcept(drawn, o)]
               ELSE IF Len(split(handler[h].cache_key, "-")) < 2
               THEN \E o \in RaiseOutcomes :
                      handler' = [handler EXCEPT ![h] = SGExcept(drawn, o)]
               ELSE \E o \in RaiseOutcomes :
                      LET sent == [drawn EXCEPT !.calls =
                                      Append(@, Call("send_photo", o, Photo,
                                                     create_bar_chart(top.items),
                                                     CaptionName(handler[h].cache_key)))]
                      IN IF o = "ok"
                         THEN handler' = [handler EXCEPT ![h] =
                                             [sent EXCEPT !.pc = "done"]]
                         ELSE \E o2 \in RaiseOutcomes :
                                handler' = [handler EXCEPT ![h] = SGExcept(sent, o2)]
    /\ UNCHANGED <<request_cache, buttons, events, pending, countries, shown, aside>>

\* ---------------------------------------------------------- specifications
Step(h) ==
    \/ send_welcome(h)
    \/ HN_Begin(h)
    \/ HN_Request(h)
    \/ HN_Put(h)
    \/ HN_Send(h)
    \/ SG_Get(h)
    \/ SG_Del(h)
    \/ SG_Render(h)

\* the hosting runtime runs handlers on NumThreads worker threads
Next == \E h \in Threads : Step(h)

Spec == Init /\ [][Next]_vars

\* handlers run one at a time: every event is handled by the one thread
NextSeq == Step(1)

SpecSeq == Init /\ [][NextSeq]_vars

\* The ranking of handle_name on its own: every "country" list of up to
\* MaxSortLen guesses, ranked as lines 133-148 rank it.
SortGuesses == [country_id : CountryIds, probability : 1..MaxSortProb]

InitSort ==
    /\ InitBot
    /\ countries \in SeqsUpTo(SortGuesses, MaxSortLen)
    /\ shown = NotShown
    /\ resolver = NotResolved
    /\ keying = NotKeyed
    /\ charting = NotCharted

Rank ==
    /\ ~shown.ranked
    /\ ~NoCountries(countries)
    /\ shown' = [ranked |-> TRUE,
                 top_countries |-> Ranked(countries).top_countries,
                 result |-> Ranked(countries).result]
    /\ UNCHANGED <<request_cache, handler, buttons, events, pending, rendered, countries,
                   aside>>

SpecSort == InitSort /\ [][Rank]_vars

\* What handle_name stores, for every "country" list of up to MaxSortLen
\* guesses: the service answers each query with the list countries, and the
\* handlers run one at a time.
StoreGuesses == [country_id : {<<"R", "U">>}, probability : 1..MaxSortProb]

InitStore ==
    /\ InitBot
    /\ countries \in SeqsUpTo(StoreGuesses, MaxSortLen)
    /\ shown = NotShown
    /\ resolver = NotResolved
    /\ keying = NotKeyed
    /\ charting = NotCharted

\* response.json() is an object whose "country" field is countries
ServiceSays == {[kind |-> "json", has_country |-> TRUE, country |-> countries]}

HN_RequestStore(h) ==
    /\ handler[h].pc = "hn_request"
    /\ HN_RequestFrom(h, ServiceSays)

NextStore ==
    \/ HN_Begin(1)
    \/ HN_RequestStore(1)
    \/ HN_Put(1)
    \/ HN_Send(1)
    \/ SG_Get(1)
    \/ SG_Del(1)
    \/ SG_Render(1)

SpecStore == InitStore /\ [][NextStore]_vars

\* The cache key on its own: for every integer chat id and every trimmed name
\* that passes validation, the key handle_name builds, the payload it puts on
\* the button, and the key send_graph takes from that payload.
KeyChatIds == (0 - MaxChat)..MaxChat
KeyChars == {"1", "-"}
KeyNames ==
    {n \in {a \o m \o b : a \in SeqsUpTo(KeyChars, MaxKeyName),
                            m \in {<<>>, GraphPrefix},
                            b \in SeqsUpTo(KeyChars, MaxKeyName)} : ~TooShort(n)}

InitKey ==
    /\ InitBot
    /\ countries = <<>>
    /\ shown = NotShown
    /\ resolver = NotResolved
    /\ keying \in {[NotKeyed EXCEPT !.chat_id = c, !.name = n] :
                      c \in KeyChatIds, n \in KeyNames}
    /\ charting = NotCharted

\* lines 151 and 158 of handle_name, then lines 177 and 183 of send_graph
MakeKey ==
    /\ ~keying.called
    /\ LET cache_key == CacheKey(keying.chat_id, keying.name)
           callback_data == CallbackData(cache_key)
       IN keying' = [keying EXCEPT
                        !.called = TRUE,
                        !.cache_key = cache_key,
                        !.callback_data = callback_data,
                        !.extracted = IF IsGraphCall(callback_data)
                                      THEN PayloadKey(callback_data) ELSE <<>>]
    /\ UNCHANGED <<bot_vars, resolver, charting>>

SpecKey == InitKey /\ [][MakeKey]_vars

\* create_bar_chart on its own: every ranked result of 0 to TopN guesses
ChartGuesses == [country_id : CountryIds, probability : 1..MaxSortProb]

InitChart ==
    /\ InitBot
    /\ countries = <<>>
    /\ shown = NotShown
    /\ resolver = NotResolved
    /\ keying = NotKeyed
    /\ charting \in {[NotCharted EXCEPT !.countries_data = l] :
                        l \in {r \in SeqsUpTo(ChartGuesses, TopN) : SortedDesc(r)}}

CallChart ==
    /\ ~charting.called
    /\ charting' = [charting EXCEPT !.called = TRUE,
                                    !.chart = create_bar_chart(charting.countries_data)]
    /\ UNCHANGED <<bot_vars, resolver, keying>>

SpecChart == InitChart /\ [][CallChart]_vars

\* get_country_name on its own: every code of up to MaxCode letters
Codes == SeqsUpTo(CodeChars, MaxCode)

InitResolve ==
    /\ InitBot
    /\ countries = <<>>
    /\ shown = NotShown
    /\ resolver \in {[NotResolved EXCEPT !.code = c] : c \in Codes}
    /\ keying = NotKeyed
    /\ charting = NotCharted

CallResolve ==
    /\ ~resolver.called
    /\ resolver' = [code |-> resolver.code, called |-> TRUE,
                    exc |-> Resolve(resolver.code).exc,
                    name |-> Resolve(resolver.code).name]
    /\ UNCHANGED <<bot_vars, keying, charting>>

SpecResolve == InitResolve /\ [][CallResolve]_vars

\* ------------------------------------------------------------------ claims
Calls(h) == handler[h].calls
NCalls(h) == Len(handler[h].calls)
LastCall(h) == handler[h].calls[NCalls(h)]
Ended(h, kind) == handler[h].pc = "done" /\ handler[h].kind = kind

\* the calls of h to the given API
CallsTo(h, api) == {i \in 1..NCalls(h) : Calls(h)[i].api = api}

\* h delivered a chart photo
PhotoSent(h) == \E i \in CallsTo(h, "send_photo") : Calls(h)[i].ok = "ok"

\* the only call of h is the stale/missing notice
OnlyStaleNotice(h) ==
    /\ NCalls(h) = 1
    /\ Calls(h)[1].api = "answer_callback_query"
    /\ Calls(h)[1].what = Stale

\* C1: with handlers run one at a time, a press carrying k that follows a query
\* which stored v under k (no press carrying k in between) calls the renderer
\* with exactly v and, the chart drawn, hands send_photo the chart of v (the
\* renderer and Telegram permitting) and gives no stale notice; a press carrying
\* k with no query for k since the last press carrying k gets only the
\* stale/missing notice: no renderer call, no photo.
C1_RoundTrip ==
    Ended(1, "press") =>
        IF handler[1].expect # None
        THEN /\ NCalls(1) >= 1
             /\ Calls(1)[1].api = "create_bar_chart"
             /\ Calls(1)[1].data = handler[1].expect
             /\ Calls(1)[1].ok = "ok" =>
                   /\ NCalls(1) >= 2
                   /\ Calls(1)[2].api = "send_photo"
                   /\ Calls(1)[2].data = create_bar_chart(handler[1].expect.items)
                   /\ Calls(1)[2].ok = "ok" => NCalls(1) = 2
             /\ \A i \in 1..NCalls(1) : Calls(1)[i].what # Stale
        ELSE OnlyStaleNotice(1)

\* a second press of a button whose first press sent the chart got the notice
C1_Witness ==
    /\ Ended(1, "press")
    /\ handler[1].expect = None
    /\ OnlyStaleNotice(1)
    /\ events.text = 1
    /\ events.press = 2
    /\ \E id \in 1..MaxEvents : rendered[id] = 1

\* C2: no cached list is charted by more than one button-press handler
C2_ConsumedAtMostOnce == \A id \in 1..MaxEvents : rendered[id] <= 1

\* every outbound call h made returned
AllCallsReturned(h) == \A i \in 1..NCalls(h) : Calls(h)[i].ok = "ok"

\* C3: no handler ends with an exception propagating to the dispatcher, here
\* even for the handlers all of whose outbound calls returned
C3_NoUncaughtError ==
    \A h \in Threads :
        (handler[h].pc = "done" /\ AllCallsReturned(h)) => handler[h].exc = "none"

\* C4: a text whose trimmed length is below 2 gets the validation message and
\* nothing else: no prediction request, no button; any other text gets exactly
\* one prediction request
C4_Validation ==
    \A h \in Threads :
        handler[h].kind = "text" =>
            LET requests == Cardinality(CallsTo(h, "requests.get"))
            IN IF Len(strip(handler[h].text)) < 2
               THEN /\ handler[h].pc = "done"
                    /\ NCalls(h) = 1
                    /\ Calls(h)[1].api = "reply_to"
                    /\ Calls(h)[1].what = Validation
                    /\ Calls(h)[1].extra = <<>>
                    /\ ~handler[h].wrote
               ELSE /\ requests <= 1
                    /\ handler[h].pc # "hn_request" => requests = 1

\* a text of two characters that strip leaves with one got the validation reply
C4_Witness ==
    \E h \in Threads :
        /\ Ended(h, "text")
        /\ Len(handler[h].text) = 2
        /\ Len(strip(handler[h].text)) = 1
        /\ LastCall(h).what = Validation
        /\ LastCall(h).ok = "ok"

\* the place a guess takes in the ranking: one more than the number of guesses
\* that go before it, which are those of greater probability and those of equal
\* probability that come earlier in the response
Place(cs, i) ==
    1 + Cardinality({j \in 1..Len(cs) :
                       \/ cs[j].probability > cs[i].probability
                       \/ cs[j].probability = cs[i].probability /\ j < i})

\* C5: of a non-empty list of n guesses, the result cached holds min(5, n)
\* guesses, each guess of place p <= 5 at position p, and the reply has one
\* line per position, numbered from 1, with that guess's name and percentage
C5_TopFive ==
    shown.ranked =>
        LET m == IF Len(countries) < 5 THEN Len(countries) ELSE 5
        IN /\ Len(shown.top_countries) = m
           /\ \A i \in 1..Len(countries) :
                Place(countries, i) <= 5 =>
                    shown.top_countries[Place(countries, i)] = countries[i]
           /\ Len(shown.result) = m
           /\ \A k \in 1..m :
                shown.result[k] =
                    <<Digit(k), ".", " ">>
                        \o get_country_name(shown.top_countries[k].country_id)
                        \o <<" ", "-", " ">>
                        \o Percent(shown.top_countries[k].probability)

\* six guesses were ranked: the first of the response is dropped, and two of
\* equal probability and different countries are kept in their order
C5_Witness ==
    /\ shown.ranked
    /\ Len(countries) = 6
    /\ Place(countries, 1) = 6
    /\ \E i, j \in 1..6 :
         /\ i < j
         /\ countries[i].probability = countries[j].probability
         /\ countries[i].country_id # countries[j].country_id
         /\ Place(countries, j) <= 5

\* the response h parsed has no "country" field, or an empty one
EmptyResponse(h) ==
    /\ handler[h].kind = "text"
    /\ handler[h].data.kind = "json"
    /\ ~handler[h].data.has_country \/ handler[h].data.country = <<>>

\* C6: a query whose response has no "country" field or an empty one replies
\* with the fixed no-prediction message right after the request, attaches no
\* button to anything it sends, and does not write the cache
C6_NoPrediction ==
    \A h \in Threads :
        EmptyResponse(h) =>
            /\ handler[h].pc = "done"
            /\ ~handler[h].wrote
            /\ NCalls(h) >= 2
            /\ Calls(h)[2].api = "reply_to"
            /\ Calls(h)[2].what = NoPrediction
            /\ Calls(h)[2].ok = "ok" => NCalls(h) = 2
            /\ \A i \in 1..NCalls(h) :
                 Calls(h)[i].extra = <<>> /\ Calls(h)[i].api # "send_message"

\* a query whose response lacks the "country" field got the no-prediction reply
C6_Witness ==
    \E h \in Threads :
        /\ EmptyResponse(h)
        /\ ~handler[h].data.has_country
        /\ NCalls(h) = 2
        /\ Calls(h)[2].what = NoPrediction
        /\ Calls(h)[2].ok = "ok"

\* the lookup of press handler h found its key absent
KeyAbsent(h) == handler[h].kind = "press" /\ handler[h].top_countries = None

\* C7: a press whose key is absent from the cache answers the callback with
\* the stale/missing notice and does nothing else: no renderer call, no photo,
\* no other message, no write of the cache
C7_AbsentKey ==
    \A h \in Threads :
        KeyAbsent(h) =>
            /\ handler[h].pc = "done"
            /\ OnlyStaleNotice(h)
            /\ ~handler[h].wrote

\* a press found its key absent, and the notice was delivered
C7_Witness ==
    \E h \in Threads :
        /\ KeyAbsent(h)
        /\ OnlyStaleNotice(h)
        /\ Calls(h)[1].ok = "ok"
        /\ handler[h].cache_key \notin DOMAIN request_cache

\* the replies a query that does not succeed ends with
FailureReplies == {Validation, ApiError, UnexpectedError, NoPrediction}

\* C8: a text query that ends in a validation, network-error, unexpected-error
\* or no-prediction reply has put no list of its own into the cache
C8_FailedQueryLeavesCache ==
    \A h \in Threads :
        (Ended(h, "text") /\ NCalls(h) >= 1 /\ LastCall(h).what \in FailureReplies) =>
            \A k \in DOMAIN request_cache : request_cache[k].id # handler[h].ev

\* C9: the caption of every chart photo names the trimmed name of the query
\* that built the list the chart was drawn from
C9_CaptionIsName ==
    \A h \in Threads :
        \A i \in CallsTo(h, "send_photo") :
            Calls(h)[i].extra = handler[h].top_countries.by

\* press handler h found its entry, and the renderer or send_photo raised
RenderFailed(h) ==
    /\ Ended(h, "press")
    /\ NCalls(h) >= 1
    /\ Calls(h)[1].api = "create_bar_chart"
    /\ \E i \in 1..NCalls(h) :
         Calls(h)[i].api \in {"create_bar_chart", "send_photo"} /\ Calls(h)[i].ok # "ok"

\* C10: a press that found its entry and whose rendering or photo failed ends
\* by answering the callback with the error notice; it sent no photo, it made
\* its deletion, and the list it found is no longer in the cache (its key is
\* absent, or holds the list that another query stored since)
C10_RenderFailure ==
    \A h \in Threads :
        RenderFailed(h) =>
            /\ LastCall(h).api = "answer_callback_query"
            /\ LastCall(h).what = ChartError
            /\ ~PhotoSent(h)
            /\ handler[h].wrote
            /\ \A k \in DOMAIN request_cache :
                 request_cache[k].id # handler[h].top_countries.id

\* the chart was drawn, send_photo raised, the error notice was delivered, and
\* the key is absent from the cache
C10_Witness ==
    \E h \in Threads :
        /\ RenderFailed(h)
        /\ NCalls(h) = 3
        /\ Calls(h)[1].ok = "ok"
        /\ Calls(h)[2].api = "send_photo"
        /\ LastCall(h).ok = "ok"
        /\ handler[h].cache_key \notin DOMAIN request_cache

Contains(s, sub) ==
    \E i \in 0..(Len(s) - Len(sub)) : SubSeq(s, i + 1, i + Len(sub)) = sub

\* C12: get_country_name raises for no code; for a code of the registry it
\* returns that country's name, which is not empty, and for any other code a
\* string that contains the code
C12_Total ==
    resolver.called =>
        /\ resolver.exc = "none"
        /\ IF resolver.code \in DOMAIN Registry
           THEN resolver.name = Registry[resolver.code] /\ resolver.name # <<>>
           ELSE /\ Contains(resolver.name, resolver.code)
                /\ Len(resolver.name) > Len(resolver.code)

\* a code of two letters that the registry does not know was resolved
C12_Witness ==
    /\ resolver.called
    /\ Len(resolver.code) = 2
    /\ resolver.code \notin DOMAIN Registry
    /\ resolver.exc = "none"

\* C13: a /start or /help message is handled by send_welcome and by nothing
\* else: its handler replies with the onboarding message and ends, having made
\* no prediction request, attached no button and not written the cache
C13_Command ==
    \A h \in Threads :
        (handler[h].kind # "none" /\ handler[h].text \in CommandTexts) =>
            /\ handler[h].kind = "command"
            /\ handler[h].pc = "done"
            /\ NCalls(h) = 1
            /\ Calls(h)[1].api = "reply_to"
            /\ Calls(h)[1].what = Welcome
            /\ Calls(h)[1].extra = <<>>
            /\ CallsTo(h, "requests.get") = {}
            /\ ~handler[h].wrote

\* /help was answered while the cache held an entry
C13_Witness ==
    \E h \in Threads :
        /\ handler[h].kind = "command"
        /\ handler[h].text = <<"/", "h", "e", "l", "p">>
        /\ Calls(h)[1].ok = "ok"
        /\ request_cache # <<>>

\* C14: a handler that delivers a chart photo consumed an entry that a query
\* had stored and no press had consumed since, and the chart is drawn from the
\* list that the latest query for that key stored
C14_FreshChart ==
    \A h \in Threads :
        PhotoSent(h) =>
            /\ handler[h].expect # None
            /\ handler[h].top_countries = handler[h].expect
            /\ \E i \in CallsTo(h, "send_photo") :
                 Calls(h)[i].data = create_bar_chart(handler[h].expect.items)

\* a press ended with the stale/missing notice
StaleNotice(h) ==
    /\ Ended(h, "press")
    /\ \E i \in CallsTo(h, "answer_callback_query") : Calls(h)[i].what = Stale

\* C15: every value in request_cache is a list of 1 to 5 guesses with
\* probabilities in descending order, and a press is answered with the
\* stale/missing notice only when its key was absent from the cache
C15_CachedShape ==
    /\ \A k \in DOMAIN request_cache :
          /\ Len(request_cache[k].items) \in 1..TopN
          /\ SortedDesc(request_cache[k].items)
    /\ \A h \in Threads : StaleNotice(h) => handler[h].top_countries = None

\* a service list of more than five guesses, not in descending order, is in
\* the cache as five sorted guesses, and after its press consumed it a second
\* press got the stale/missing notice
C15_Witness ==
    /\ Len(countries) > TopN
    /\ ~SortedDesc(countries)
    /\ \E k \in DOMAIN request_cache : Len(request_cache[k].items) = TopN
    /\ StaleNotice(1)
    /\ rendered # [i \in 1..MaxEvents |-> 0]

\* C16: with integer chat ids, the key built for a chat and a trimmed name is
\* built for no other pair of chat and name, also when names contain '-'
C16_PrivateKey ==
    keying.called =>
        \A c \in KeyChatIds, n \in KeyNames :
            CacheKey(c, n) = keying.cache_key => c = keying.chat_id /\ n = keying.name

\* a key was built for a negative chat id and a name that begins with a digit
\* and a '-', so that the key reads like the key of a longer chat id
C16_Witness ==
    /\ keying.called
    /\ keying.chat_id < 0
    /\ Len(keying.name) > 2
    /\ keying.name[1] = "1"
    /\ keying.name[2] = "-"

\* C17: the key send_graph takes from the button payload (the payload without
\* its first six characters) is the key handle_name built, and the payload is
\* one the callback handler accepts, also for names containing 'graph_' or '-'
C17_PayloadRoundTrip ==
    keying.called =>
        /\ IsGraphCall(keying.callback_data)
        /\ keying.extracted = keying.cache_key
        /\ keying.extracted = CacheKey(keying.chat_id, keying.name)

\* the round trip was made for a name containing both 'graph_' and '-'
C17_Witness ==
    /\ keying.called
    /\ \E i \in 1..Len(keying.name) - 5 :
          /\ SubSeq(keying.name, i, i + 5) = GraphPrefix
          /\ \E j \in 1..Len(keying.name) : keying.name[j] = "-"
    /\ keying.extracted = keying.cache_key

\* the calls of h that send something to the user
Answers(h) ==
    CallsTo(h, "reply_to") \cup CallsTo(h, "send_message")
        \cup CallsTo(h, "send_photo") \cup CallsTo(h, "answer_callback_query")

\* every send of h returned (the request and the renderer may have failed)
SendsSucceeded(h) == \A i \in Answers(h) : Calls(h)[i].ok = "ok"

\* C18: a handler that has ended and whose sends all succeeded answered its
\* event exactly once: a text or command with one reply or message, a press
\* with one photo or one callback notice, never both and never neither
C18_AnsweredOnce ==
    \A h \in Threads :
        (handler[h].pc = "done" /\ SendsSucceeded(h)) =>
            /\ Cardinality(Answers(h)) = 1
            /\ handler[h].kind = "press" =>
                  Answers(h) \subseteq CallsTo(h, "send_photo")
                                          \cup CallsTo(h, "answer_callback_query")
            /\ handler[h].kind # "press" =>
                  Answers(h) \subseteq CallsTo(h, "reply_to")
                                          \cup CallsTo(h, "send_message")

\* the chart has one bar per guess of the result, bar i at position i of the
\* axis (positions count from 0), with the guess's probability as height and
\* text, and the tick at its position is the guess's resolved name
OneBarPerGuess(result, chart) ==
    /\ Len(chart.bars) = Len(result)
    /\ \A i \in 1..Len(result) :
          /\ chart.bars[i].x = i - 1
          /\ chart.bars[i].height = result[i].probability
          /\ chart.bars[i].text = Percent(result[i].probability)
          /\ Len(chart.ticks) > chart.bars[i].x
          /\ chart.ticks[chart.bars[i].x + 1] = get_country_name(result[i].country_id)

\* C19: for every ranked result of 0 to 5 guesses, create_bar_chart draws one
\* bar per guess, in the order of the result, each with the resolved name of
\* its guess as label and the probability as height, also when two guesses
\* resolve to the same name
C19_OneBarPerGuess ==
    charting.called => OneBarPerGuess(charting.countries_data, charting.chart)

====
